---- MODULE Spec2Model ----
(***************************************************************************)
(* The power-profiles-daemon compatibility controller of TuneD             *)
(* (tuned/ppd/controller.py): the hold registry (ProfileHoldManager) and   *)
(* the arbitration Controller, together with the two collaborators they    *)
(* talk to: the TuneD backend (switch_profile / active_profile) and the    *)
(* bus's name-owner watches.  Every handler runs to completion on the one  *)
(* GLib main loop, so each handler is one atomic action.                   *)
(*                                                                         *)
(* Python semantics the model relies on:                                   *)
(*  - dict keeps insertion order, and popping from a dict while a for loop *)
(*    iterates over it makes the iterator's next step raise RuntimeError   *)
(*    (CPython: "dictionary changed size during iteration");               *)
(*  - `profile not in PPDProfile` is the value-membership test of          *)
(*    Python >= 3.12 (Python 3.11 raises TypeError for every str there).   *)
(***************************************************************************)
EXTENDS Integers, Sequences, FiniteSets

\* ------------------------------------------------------------------ bounds
\* HoldProfile is accepted while fewer than MaxCookies cookies were issued.
MaxCookies == 3
\* The bus clients that call HoldProfile are 1..NumClients.
NumClients == 2

Clients == 1..NumClients

\* ------------------------------------------------- controller.py:10-32
POWER_SAVER == "power-saver"
BALANCED == "balanced"
PERFORMANCE == "performance"
PPDProfile == {POWER_SAVER, BALANCED, PERFORMANCE}

POWERSAVE == "powersave"
TUNED_BALANCED == "balanced"
THROUGHPUT_PERFORMANCE == "throughput-performance"
TuneDProfile == {POWERSAVE, TUNED_BALANCED, THROUGHPUT_PERFORMANCE}

\* A PPD_TO_TUNED with two values exchanged (used to test C11).
PPD_TO_TUNED_Exchanged(p) ==
    CASE p = POWER_SAVER -> POWERSAVE
      [] p = BALANCED    -> THROUGHPUT_PERFORMANCE
      [] p = PERFORMANCE -> TUNED_BALANCED

PPD_TO_TUNED(p) ==
    CASE p = POWER_SAVER -> POWERSAVE
      [] p = BALANCED    -> TUNED_BALANCED
      [] p = PERFORMANCE -> THROUGHPUT_PERFORMANCE

TUNED_TO_PPD(t) ==
    CASE t = POWERSAVE              -> POWER_SAVER
      [] t = TUNED_BALANCED         -> BALANCED
      [] t = THROUGHPUT_PERFORMANCE -> PERFORMANCE

\* The strings a client may pass as a profile: the three members and one
\* string that is no member of PPDProfile.
ProfileArgs == PPDProfile \cup {"bogus"}

\* The cookies a client may pass to ReleaseProfile (one beyond every cookie
\* the bound lets the registry issue).
CookieArgs == 0..MaxCookies

\* ---------------------------------------------------------------- state
VARIABLES
    holds,          \* ProfileHoldManager._holds: the dict in insertion order,
                    \* a sequence of [cookie, profile, app]
    cookie_counter, \* ProfileHoldManager._cookie_counter
    base_profile,   \* Controller._base_profile
    tuned_profile,  \* the backend: what tuned's active_profile() reports
    watches,        \* the bus: live name-owner watches, [cookie, name]
    owners,         \* the bus: the clients that still own their name
    signals,        \* the ProfileReleased signals sent so far, in order
    issued,         \* history: the cookies add() allocated, in order
    reply,          \* the last handler run and how it ended
    backend_call,   \* the tuned switch_profile call the last handler made
    scenario        \* history: how the handlers run so far match Script

vars == <<holds, cookie_counter, base_profile, tuned_profile, watches, owners,
          signals, issued, reply, backend_call, scenario>>

NoCall == "none"

Range(s) == {s[i] : i \in DOMAIN s}

\* `cookie in self._holds` / the keys of the dict
HoldCookies(h) == {h[i].cookie : i \in DOMAIN h}

\* self._holds.pop(cookie): the entry leaves, the others keep their order
Pop(h, cookie) == SelectSeq(h, LAMBDA e : e.cookie # cookie)

\* The registry as the three things _cancel touches.
Registry == [holds |-> holds, watches |-> watches, signals |-> signals]

\* ------------------------------------------------- ProfileHoldManager
\* A registry whose policy prefers performance (used to test C9).
_effective_hold_profile_PerformanceFirst(h) ==
    IF \E i \in DOMAIN h : h[i].profile = PERFORMANCE
    THEN PERFORMANCE
    ELSE POWER_SAVER

\* controller.py:70-73
_effective_hold_profile(h) ==
    IF \E i \in DOMAIN h : h[i].profile = POWER_SAVER
    THEN POWER_SAVER
    ELSE PERFORMANCE

\* A _cancel that sends no ProfileReleased (used to test C6).
_cancel_NoSignal(reg, cookie) ==
    IF cookie \notin HoldCookies(reg.holds)
    THEN reg
    ELSE [holds   |-> Pop(reg.holds, cookie),
          watches |-> {w \in reg.watches : w.cookie # cookie},
          signals |-> reg.signals]

\* A _cancel that reads the hold and leaves it in the dict (used to test C5).
_cancel_NoPop(reg, cookie) ==
    IF cookie \notin HoldCookies(reg.holds)
    THEN reg
    ELSE [holds   |-> reg.holds,
          watches |-> {w \in reg.watches : w.cookie # cookie},
          signals |-> Append(reg.signals, cookie)]

\* A _cancel that leaves the watch registered (used to test C16).
_cancel_KeepsWatch(reg, cookie) ==
    IF cookie \notin HoldCookies(reg.holds)
    THEN reg
    ELSE [holds   |-> Pop(reg.holds, cookie),
          watches |-> reg.watches,
          signals |-> Append(reg.signals, cookie)]

\* A _cancel without the membership check (used to test C17).
_cancel_SignalsAbsent(reg, cookie) ==
    [holds   |-> Pop(reg.holds, cookie),
     watches |-> {w \in reg.watches : w.cookie # cookie},
     signals |-> Append(reg.signals, cookie)]

\* controller.py:75-83: pop the hold, cancel its watch, send ProfileReleased
_cancel(reg, cookie) ==
    IF cookie \notin HoldCookies(reg.holds)
    THEN reg
    ELSE [holds   |-> Pop(reg.holds, cookie),
          watches |-> {w \in reg.watches : w.cookie # cookie},
          signals |-> Append(reg.signals, cookie)]

\* controller.py:106-108: `for cookie in self._holds: self._cancel(cookie)`.
\* With no holds the loop body never runs.  Otherwise the first key is
\* cancelled (popped), and fetching the next key raises RuntimeError.
clear(reg) ==
    IF Len(reg.holds) = 0
    THEN [reg |-> reg, raised |-> FALSE]
    ELSE [reg |-> _cancel(reg, reg.holds[1].cookie), raised |-> TRUE]

\* ---------------------------------------------------------- Controller
\* controller.py:135-137
active_profile(tuned) == TUNED_TO_PPD(tuned)

\* A switch_profile without the comparison (used to test C14).
switch_profile_Always(tuned, profile, ok) ==
    [tuned  |-> IF ok THEN PPD_TO_TUNED(profile) ELSE tuned,
     call   |-> PPD_TO_TUNED(profile),
     failed |-> ~ok]

\* controller.py:128-133: the backend's mode afterwards, the call made to
\* it, and whether the call failed (ok is the backend's answer to a call).
switch_profile(tuned, profile, ok) ==
    IF active_profile(tuned) = profile
    THEN [tuned |-> tuned, call |-> NoCall, failed |-> FALSE]
    ELSE [tuned  |-> IF ok THEN PPD_TO_TUNED(profile) ELSE tuned,
          call   |-> PPD_TO_TUNED(profile),
          failed |-> ~ok]

\* A remove that always goes back to the base profile (used to test C3).
remove_IgnoresHolds(reg, base, tuned, cookie, ok) ==
    [reg |-> _cancel(reg, cookie), sw |-> switch_profile(tuned, base, ok)]

\* A remove that picks the profile before the hold is popped (used to test
\* C12).
remove_StaleHolds(reg, base, tuned, cookie, ok) ==
    LET r == _cancel(reg, cookie)
        new_profile == IF Len(reg.holds) # 0
                       THEN _effective_hold_profile(reg.holds)
                       ELSE base
    IN  [reg |-> r, sw |-> switch_profile(tuned, new_profile, ok)]

\* controller.py:98-104
remove(reg, base, tuned, cookie, ok) ==
    LET r == _cancel(reg, cookie)
        new_profile == IF Len(r.holds) # 0
                       THEN _effective_hold_profile(r.holds)
                       ELSE base
    IN  [reg |-> r, sw |-> switch_profile(tuned, new_profile, ok)]

\* An add that hands out the lowest cookie no hold uses (used to test C2).
add_ReusesCookie(reg, counter, tuned, profile, caller, ok) ==
    LET cookie == CHOOSE c \in 0..Len(reg.holds) :
                      /\ c \notin HoldCookies(reg.holds)
                      /\ \A d \in 0..Len(reg.holds) :
                             d \notin HoldCookies(reg.holds) => c <= d
    IN  [cookie  |-> cookie,
         counter |-> counter + 1,
         reg     |-> [holds   |-> Append(reg.holds,
                                         [cookie |-> cookie, profile |-> profile,
                                          app |-> caller]),
                      watches |-> reg.watches \cup
                                  {[cookie |-> cookie, name |-> caller]},
                      signals |-> reg.signals],
         sw      |-> switch_profile(tuned, profile, ok)]

\* An add that arbitrates over all holds (used to test C13).
add_Recomputes(reg, counter, tuned, profile, caller, ok) ==
    LET cookie == counter
        h == Append(reg.holds,
                    [cookie |-> cookie, profile |-> profile, app |-> caller])
    IN  [cookie  |-> cookie,
         counter |-> counter + 1,
         reg     |-> [holds   |-> h,
                      watches |-> reg.watches \cup
                                  {[cookie |-> cookie, name |-> caller]},
                      signals |-> reg.signals],
         sw      |-> switch_profile(tuned, _effective_hold_profile(h), ok)]

\* An add that takes the hold back when the switch fails (used to test C15).
add_RollsBack(reg, counter, tuned, profile, caller, ok) ==
    LET cookie == counter
        sw == switch_profile(tuned, profile, ok)
    IN  [cookie  |-> cookie,
         counter |-> counter + 1,
         reg     |-> IF sw.failed
                     THEN reg
                     ELSE [holds   |-> Append(reg.holds,
                                              [cookie |-> cookie,
                                               profile |-> profile,
                                               app |-> caller]),
                           watches |-> reg.watches \cup
                                       {[cookie |-> cookie, name |-> caller]},
                           signals |-> reg.signals],
         sw      |-> sw]

\* controller.py:85-96
add(reg, counter, tuned, profile, caller, ok) ==
    LET cookie == counter
    IN  [cookie  |-> cookie,
         counter |-> counter + 1,
         reg     |-> [holds   |-> Append(reg.holds,
                                         [cookie |-> cookie, profile |-> profile,
                                          app |-> caller]),
                      watches |-> reg.watches \cup
                                  {[cookie |-> cookie, name |-> caller]},
                      signals |-> reg.signals],
         sw      |-> switch_profile(tuned, profile, ok)]

\* ------------------------------------------------------------- history
\* The calls of the end-to-end scenario that C3 follows.
Script ==
    << [op |-> "HoldProfile",    profile |-> PERFORMANCE, cookie |-> <<>>],
       [op |-> "HoldProfile",    profile |-> POWER_SAVER, cookie |-> <<>>],
       [op |-> "ReleaseProfile", profile |-> "",          cookie |-> <<1>>],
       [op |-> "ReleaseProfile", profile |-> "",          cookie |-> <<0>>] >>

\* scenario after one more handler call: it advances while the calls made
\* since construction are exactly the first calls of Script.
Advance(sc, call) ==
    IF sc.on /\ sc.pos < Len(Script) /\ Script[sc.pos + 1] = call
    THEN [on |-> TRUE, pos |-> sc.pos + 1]
    ELSE [on |-> FALSE, pos |-> 0]

Reply(op, profile, cookie, status) ==
    [op |-> op, profile |-> profile, cookie |-> cookie, status |-> status]

\* -------------------------------------------------------------- actions
\* controller.py:112-118 and tuned-ppd.py:21: the state once the Controller
\* is constructed over a backend that reports any of its three profiles.
Init ==
    \E t0 \in TuneDProfile :
        LET sw == switch_profile(t0, BALANCED, TRUE)
        IN  /\ holds = <<>>
            /\ cookie_counter = 0
            /\ base_profile = BALANCED
            /\ tuned_profile = sw.tuned
            /\ watches = {}
            /\ owners = Clients
            /\ signals = <<>>
            /\ issued = <<>>
            /\ reply = Reply("__init__", "", <<>>, "ok")
            /\ backend_call = sw.call
            /\ scenario = [on |-> TRUE, pos |-> 0]

\* A HoldProfile that accepts every member of PPDProfile (used to test C8).
HoldProfile_AnyMember(profile, caller, ok) ==
    /\ caller \in owners
    /\ cookie_counter < MaxCookies
    /\ scenario' = Advance(scenario,
                           [op |-> "HoldProfile", profile |-> profile,
                            cookie |-> <<>>])
    /\ IF profile \notin PPDProfile
       THEN /\ reply' = Reply("HoldProfile", profile, <<>>, "invalid-argument")
            /\ backend_call' = NoCall
            /\ UNCHANGED <<holds, cookie_counter, base_profile, tuned_profile,
                           watches, owners, signals, issued>>
       ELSE LET a == add(Registry, cookie_counter, tuned_profile, profile,
                         caller, ok)
            IN  /\ holds' = a.reg.holds
                /\ watches' = a.reg.watches
                /\ signals' = a.reg.signals
                /\ cookie_counter' = a.counter
                /\ issued' = Append(issued, a.cookie)
                /\ tuned_profile' = a.sw.tuned
                /\ backend_call' = a.sw.call
                /\ reply' = IF a.sw.failed
                            THEN Reply("HoldProfile", profile, <<>>,
                                       "backend-unavailable")
                            ELSE Reply("HoldProfile", profile, <<a.cookie>>, "ok")
                /\ UNCHANGED <<base_profile, owners>>

\* controller.py:139-145
HoldProfile(profile, caller, ok) ==
    /\ caller \in owners
    /\ cookie_counter < MaxCookies
    /\ scenario' = Advance(scenario,
                           [op |-> "HoldProfile", profile |-> profile,
                            cookie |-> <<>>])
    /\ IF profile # POWER_SAVER /\ profile # PERFORMANCE
       THEN /\ reply' = Reply("HoldProfile", profile, <<>>, "invalid-argument")
            /\ backend_call' = NoCall
            /\ UNCHANGED <<holds, cookie_counter, base_profile, tuned_profile,
                           watches, owners, signals, issued>>
       ELSE LET a == add(Registry, cookie_counter, tuned_profile, profile,
                         caller, ok)
            IN  /\ holds' = a.reg.holds
                /\ watches' = a.reg.watches
                /\ signals' = a.reg.signals
                /\ cookie_counter' = a.counter
                /\ issued' = Append(issued, a.cookie)
                /\ tuned_profile' = a.sw.tuned
                /\ backend_call' = a.sw.call
                /\ reply' = IF a.sw.failed
                            THEN Reply("HoldProfile", profile, <<>>,
                                       "backend-unavailable")
                            ELSE Reply("HoldProfile", profile, <<a.cookie>>, "ok")
                /\ UNCHANGED <<base_profile, owners>>

\* A ReleaseProfile without the membership check (used to test C7).
ReleaseProfile_NoCheck(cookie, ok) ==
    /\ scenario' = Advance(scenario,
                           [op |-> "ReleaseProfile", profile |-> "",
                            cookie |-> <<cookie>>])
    /\ LET r == remove(Registry, base_profile, tuned_profile, cookie, ok)
       IN  /\ holds' = r.reg.holds
           /\ watches' = r.reg.watches
           /\ signals' = r.reg.signals
           /\ tuned_profile' = r.sw.tuned
           /\ backend_call' = r.sw.call
           /\ reply' = Reply("ReleaseProfile", "", <<cookie>>,
                             IF r.sw.failed THEN "backend-unavailable" ELSE "ok")
           /\ UNCHANGED <<cookie_counter, base_profile, owners, issued>>

\* controller.py:147-151
ReleaseProfile(cookie, ok) ==
    /\ scenario' = Advance(scenario,
                           [op |-> "ReleaseProfile", profile |-> "",
                            cookie |-> <<cookie>>])
    /\ IF cookie \notin HoldCookies(holds)
       THEN /\ reply' = Reply("ReleaseProfile", "", <<cookie>>, "not-found")
            /\ backend_call' = NoCall
            /\ UNCHANGED <<holds, cookie_counter, base_profile, tuned_profile,
                           watches, owners, signals, issued>>
       ELSE LET r == remove(Registry, base_profile, tuned_profile, cookie, ok)
            IN  /\ holds' = r.reg.holds
                /\ watches' = r.reg.watches
                /\ signals' = r.reg.signals
                /\ tuned_profile' = r.sw.tuned
                /\ backend_call' = r.sw.call
                /\ reply' = Reply("ReleaseProfile", "", <<cookie>>,
                                  IF r.sw.failed THEN "backend-unavailable"
                                  ELSE "ok")
                /\ UNCHANGED <<cookie_counter, base_profile, owners, issued>>

\* A set_active_profile that stores the profile before it checks it (used to
\* test C20).
set_active_profile_StoresFirst(profile, ok) ==
    /\ scenario' = Advance(scenario,
                           [op |-> "set_active_profile", profile |-> profile,
                            cookie |-> <<>>])
    /\ base_profile' = profile
    /\ IF profile \notin PPDProfile
       THEN /\ reply' = Reply("set_active_profile", profile, <<>>,
                              "invalid-argument")
            /\ backend_call' = NoCall
            /\ UNCHANGED <<holds, cookie_counter, tuned_profile,
                           watches, owners, signals, issued>>
       ELSE LET c == clear(Registry)
                sw == switch_profile(tuned_profile, profile, ok)
            IN  /\ holds' = c.reg.holds
                /\ watches' = c.reg.watches
                /\ signals' = c.reg.signals
                /\ IF c.raised
                   THEN /\ reply' = Reply("set_active_profile", profile, <<>>,
                                          "RuntimeError")
                        /\ backend_call' = NoCall
                        /\ UNCHANGED tuned_profile
                   ELSE /\ reply' = Reply("set_active_profile", profile, <<>>,
                                          IF sw.failed
                                          THEN "backend-unavailable" ELSE "ok")
                        /\ backend_call' = sw.call
                        /\ tuned_profile' = sw.tuned
                /\ UNCHANGED <<cookie_counter, owners, issued>>

\* controller.py:157-163
set_active_profile(profile, ok) ==
    /\ scenario' = Advance(scenario,
                           [op |-> "set_active_profile", profile |-> profile,
                            cookie |-> <<>>])
    /\ IF profile \notin PPDProfile
       THEN /\ reply' = Reply("set_active_profile", profile, <<>>,
                              "invalid-argument")
            /\ backend_call' = NoCall
            /\ UNCHANGED <<holds, cookie_counter, base_profile, tuned_profile,
                           watches, owners, signals, issued>>
       ELSE LET c == clear(Registry)
                sw == switch_profile(tuned_profile, profile, ok)
            IN  /\ base_profile' = profile
                /\ holds' = c.reg.holds
                /\ watches' = c.reg.watches
                /\ signals' = c.reg.signals
                /\ IF c.raised
                   THEN /\ reply' = Reply("set_active_profile", profile, <<>>,
                                          "RuntimeError")
                        /\ backend_call' = NoCall
                        /\ UNCHANGED tuned_profile
                   ELSE /\ reply' = Reply("set_active_profile", profile, <<>>,
                                          IF sw.failed
                                          THEN "backend-unavailable" ELSE "ok")
                        /\ backend_call' = sw.call
                        /\ tuned_profile' = sw.tuned
                /\ UNCHANGED <<cookie_counter, owners, issued>>

\* The bus: a client exits or disconnects, and its name loses its owner.
Disconnect(client) ==
    /\ client \in owners
    /\ owners' = owners \ {client}
    /\ UNCHANGED <<holds, cookie_counter, base_profile, tuned_profile, watches,
                   signals, issued, reply, backend_call, scenario>>

\* The owner the bus reports for a watched name: "" when it has none.
NameOwner(name) == IF name \in owners THEN "owner" ELSE ""

\* A callback that ignores what the bus reports (used to test C4).
_callback_NeverRemoves(w, name, ok) ==
    /\ w \in watches
    /\ name = NameOwner(w.name)
    /\ scenario' = Advance(scenario,
                           [op |-> "callback", profile |-> "",
                            cookie |-> <<w.cookie>>])
    /\ reply' = Reply("callback", "", <<w.cookie>>, "ok")
    /\ backend_call' = NoCall
    /\ UNCHANGED <<holds, watches, signals, tuned_profile, cookie_counter,
                   base_profile, owners, issued>>

\* controller.py:60-68: the bus delivers to a live watch the owner of the
\* name it watches; the callback removes the hold when there is none.
_callback(w, name, ok) ==
    /\ w \in watches
    /\ name = NameOwner(w.name)
    /\ scenario' = Advance(scenario,
                           [op |-> "callback", profile |-> "",
                            cookie |-> <<w.cookie>>])
    /\ IF name = ""
       THEN LET r == remove(Registry, base_profile, tuned_profile, w.cookie, ok)
            IN  /\ holds' = r.reg.holds
                /\ watches' = r.reg.watches
                /\ signals' = r.reg.signals
                /\ tuned_profile' = r.sw.tuned
                /\ backend_call' = r.sw.call
                /\ reply' = Reply("callback", "", <<w.cookie>>,
                                  IF r.sw.failed THEN "backend-unavailable"
                                  ELSE "ok")
       ELSE /\ reply' = Reply("callback", "", <<w.cookie>>, "ok")
            /\ backend_call' = NoCall
            /\ UNCHANGED <<holds, watches, signals, tuned_profile>>
    /\ UNCHANGED <<cookie_counter, base_profile, owners, issued>>

\* The backend carries out every switch it is asked for.
Next ==
    \/ \E p \in ProfileArgs, c \in Clients : HoldProfile(p, c, TRUE)
    \/ \E k \in CookieArgs : ReleaseProfile(k, TRUE)
    \/ \E p \in ProfileArgs : set_active_profile(p, TRUE)
    \/ \E c \in Clients : Disconnect(c)
    \/ \E w \in watches, n \in {"", "owner"} : _callback(w, n, TRUE)

Spec == Init /\ [][Next]_vars

\* The backend may fail any switch it is asked for: the call raises, and the
\* backend stays in the mode it was in.
BackendAnswers == BOOLEAN

\* The handlers with the arguments that let them reach the backend (the
\* rejected calls never do), each with either answer of the backend.
NextUnreliable ==
    \/ \E p \in {POWER_SAVER, PERFORMANCE}, c \in Clients, ok \in BackendAnswers :
           HoldProfile(p, c, ok)
    \/ \E k \in HoldCookies(holds), ok \in BackendAnswers : ReleaseProfile(k, ok)
    \/ \E p \in PPDProfile, ok \in BackendAnswers : set_active_profile(p, ok)
    \/ \E c \in Clients : Disconnect(c)
    \/ \E w \in watches, ok \in BackendAnswers : _callback(w, "", ok)

SpecUnreliable == Init /\ [][NextUnreliable]_vars

\* controller.py:98-104 called with a cookie that is not in the registry
\* (as the callback closure of a removed hold, controller.py:61-66, would
\* call it if it ran once more with name = "").
RemoveAbsent(cookie, ok) ==
    /\ cookie \notin HoldCookies(holds)
    /\ scenario' = Advance(scenario,
                           [op |-> "callback", profile |-> "",
                            cookie |-> <<cookie>>])
    /\ LET r == remove(Registry, base_profile, tuned_profile, cookie, ok)
       IN  /\ holds' = r.reg.holds
           /\ watches' = r.reg.watches
           /\ signals' = r.reg.signals
           /\ tuned_profile' = r.sw.tuned
           /\ backend_call' = r.sw.call
           /\ reply' = Reply("remove-absent", "", <<cookie>>,
                             IF r.sw.failed THEN "backend-unavailable" ELSE "ok")
    /\ UNCHANGED <<cookie_counter, base_profile, owners, issued>>

\* The handlers with the arguments they accept, over a backend that carries
\* out every switch, and remove() called with an absent cookie.
NextStale ==
    \/ \E p \in {POWER_SAVER, PERFORMANCE}, c \in Clients : HoldProfile(p, c, TRUE)
    \/ \E k \in HoldCookies(holds) : ReleaseProfile(k, TRUE)
    \/ \E p \in PPDProfile : set_active_profile(p, TRUE)
    \/ \E c \in Clients : Disconnect(c)
    \/ \E w \in watches : _callback(w, "", TRUE)
    \/ \E k \in CookieArgs : RemoveAbsent(k, TRUE)

SpecStale == Init /\ [][NextStale]_vars

\* The bus delivers the loss of a name's owner to every live watch on it:
\* a callback with name = "" that stays due is run in the end.
CallbackGone == \E w \in watches : _callback(w, "", TRUE)

SpecLive == Init /\ [][Next]_vars /\ WF_vars(CallbackGone)

\* ============================================================== claims
Mode == active_profile(tuned_profile)

HeldProfiles(h) == {h[i].profile : i \in DOMAIN h}

\* How often cookie c was announced by ProfileReleased.
Released(c) == Cardinality({i \in DOMAIN signals : signals[i] = c})

\* The mode the arbitration policy asks for: power-saver if any hold asks
\* for it, else performance if any hold is left, else the base profile.
Arbitrated(h, base) ==
    IF POWER_SAVER \in HeldProfiles(h) THEN POWER_SAVER
    ELSE IF h # <<>> THEN PERFORMANCE
    ELSE base

\* C1: after set ActiveProfile with a valid mode m, whatever the holds, the
\* base profile and the backend mode were, the hold registry is empty and
\* the backend's applied mode is m.
C1_SetBaseClearsHoldsAndApplies ==
    (reply.op = "set_active_profile" /\ reply.profile \in PPDProfile)
        => (holds = <<>> /\ Mode = reply.profile)

\* C2: every cookie a successful HoldProfile returns is strictly greater
\* than every cookie issued before it; no cookie is issued twice, also
\* after its hold was removed; no two holds share a cookie.
C2_CookiesStrictlyIncrease ==
    /\ \A i, j \in DOMAIN issued : i < j => issued[i] < issued[j]
    /\ \A i, j \in DOMAIN holds : i # j => holds[i].cookie # holds[j].cookie
    /\ HoldCookies(holds) \subseteq Range(issued)
    /\ (reply.op = "HoldProfile" /\ reply.status = "ok")
           => /\ reply.cookie = <<issued[Len(issued)]>>
              /\ \A i \in 1..(Len(issued) - 1) : issued[i] < reply.cookie[1]

\* C2 witness: HoldProfile returned a cookie after an earlier hold had been
\* removed.
C2_Witness ==
    /\ reply.op = "HoldProfile" /\ reply.status = "ok"
    /\ signals # <<>>
    /\ Len(issued) >= 2

\* C3: from a fresh Controller (base balanced, backend balanced, no holds):
\* HoldProfile(performance) returns 0 and the mode is performance;
\* HoldProfile(power-saver) returns 1 and the mode is power-saver;
\* ReleaseProfile(1) makes the mode performance with cookie 0 still held;
\* ReleaseProfile(0) makes the mode balanced.
C3_EndToEnd ==
    scenario.on =>
        /\ scenario.pos = 0 =>
               (holds = <<>> /\ base_profile = BALANCED /\ Mode = BALANCED)
        /\ scenario.pos = 1 =>
               (reply.status = "ok" /\ reply.cookie = <<0>> /\ Mode = PERFORMANCE)
        /\ scenario.pos = 2 =>
               (reply.status = "ok" /\ reply.cookie = <<1>> /\ Mode = POWER_SAVER)
        /\ scenario.pos = 3 =>
               (reply.status = "ok" /\ HoldCookies(holds) = {0}
                /\ Mode = PERFORMANCE)
        /\ scenario.pos = 4 =>
               (reply.status = "ok" /\ holds = <<>> /\ Mode = BALANCED)

\* C3 witness: the four calls of the scenario were made.
C3_Witness == scenario.on /\ scenario.pos = Len(Script)

\* C4: when the watch of an active hold C reports that the client's name
\* has no owner, C leaves the registry, ProfileReleased(C) is sent, and the
\* mode is recomputed from the remaining holds, else the base profile.
C4_DisconnectReleasesHold ==
    [][\A w \in watches :
          (_callback(w, "", TRUE) /\ w.cookie \in HoldCookies(holds))
              => /\ w.cookie \notin HoldCookies(holds')
                 /\ HoldCookies(holds') = HoldCookies(holds) \ {w.cookie}
                 /\ signals' = Append(signals, w.cookie)
                 /\ w \notin watches'
                 /\ active_profile(tuned_profile')
                        = Arbitrated(holds', base_profile')]_vars

\* C4 witness: a callback removed a hold while another hold stayed active.
C4_Witness ==
    /\ reply.op = "callback"
    /\ reply.cookie[1] \in Range(signals)
    /\ reply.cookie[1] \notin HoldCookies(holds)
    /\ holds # <<>>

\* C5: ReleaseProfile(c) right after ReleaseProfile(c) changes neither the
\* registry, the base profile nor the backend mode, and sends no second
\* ProfileReleased(c).
C5_SecondReleaseIsNoOp ==
    [][\A c \in CookieArgs :
          (reply.op = "ReleaseProfile" /\ reply.cookie = <<c>>
           /\ ReleaseProfile(c, TRUE))
              => /\ UNCHANGED <<holds, watches, base_profile, tuned_profile,
                                signals, cookie_counter>>
                 /\ backend_call' = NoCall
                 /\ Cardinality({i \in DOMAIN signals' : signals'[i] = c})
                        = Released(c)]_vars

\* C5 witness: a release of the cookie whose ProfileReleased was the last
\* one sent has just been turned down.
C5_Witness ==
    /\ reply.op = "ReleaseProfile" /\ reply.status = "not-found"
    /\ signals # <<>>
    /\ reply.cookie = <<signals[Len(signals)]>>
    /\ backend_call = NoCall

\* C6: ProfileReleased(c) was sent exactly once for every hold that left
\* the registry, and never for a cookie that is active or was never issued.
C6_ReleasedOncePerRemoval ==
    \A c \in CookieArgs \cup Range(issued) \cup Range(signals) :
        Released(c) = IF c \in Range(issued) /\ c \notin HoldCookies(holds)
                      THEN 1 ELSE 0

\* C6 witness: holds have left by a base-mode change and by other paths,
\* and a hold is still active.
C6_Witness ==
    /\ reply.op = "set_active_profile"
    /\ Len(signals) >= 2
    /\ holds # <<>>

\* C7: ReleaseProfile of a cookie that is not active fails as not-found and
\* changes neither the registry, the base profile nor the backend mode, and
\* sends no ProfileReleased.
C7_ReleaseInactiveFails ==
    [][\A c \in CookieArgs :
          (ReleaseProfile(c, TRUE) /\ c \notin HoldCookies(holds))
              => /\ reply'.status = "not-found"
                 /\ UNCHANGED <<holds, watches, base_profile, tuned_profile,
                                signals, cookie_counter>>
                 /\ backend_call' = NoCall]_vars

\* C7 witness: a cookie that was issued and removed earlier was turned down
\* while other holds were removed after it.
C7_Witness ==
    /\ reply.op = "ReleaseProfile" /\ reply.status = "not-found"
    /\ Len(signals) >= 2
    /\ reply.cookie = <<signals[1]>>

\* C8: HoldProfile of a mode other than power-saver and performance fails as
\* invalid-argument: no hold, no cookie, no watch, the backend untouched (a
\* HoldProfile that succeeds returns the counter's value); and no active
\* hold ever asks for balanced.
C8_HoldRejectsOtherModes ==
    /\ [][\A p \in ProfileArgs, c \in Clients :
             HoldProfile(p, c, TRUE)
                 => IF p \notin {POWER_SAVER, PERFORMANCE}
                    THEN /\ reply'.status = "invalid-argument"
                         /\ UNCHANGED <<holds, watches, cookie_counter, issued,
                                        base_profile, tuned_profile, signals>>
                         /\ backend_call' = NoCall
                    ELSE reply'.cookie = <<cookie_counter>>]_vars
    /\ [](\A i \in DOMAIN holds :
              holds[i].profile \in {POWER_SAVER, PERFORMANCE})

\* C8 witness: HoldProfile(balanced) was turned down while holds are active.
C8_Witness ==
    /\ reply.op = "HoldProfile" /\ reply.status = "invalid-argument"
    /\ reply.profile = BALANCED
    /\ holds # <<>>

\* C9 as stated: power-saver if any hold asks for it, performance if holds
\* exist and none does, and "no holds" (None) for an empty registry.
C9_EffectiveHoldModeWithNone ==
    LET e == _effective_hold_profile(holds)
        n == Cardinality({i \in DOMAIN holds : holds[i].profile = POWER_SAVER})
    IN  /\ n >= 1 => e = POWER_SAVER
        /\ (Len(holds) >= 1 /\ n = 0) => e = PERFORMANCE
        /\ Len(holds) = 0 => e = "None"

\* C9 amended: power-saver if any hold asks for it, however many ask for
\* performance; performance in every other case, the empty registry
\* included (it never answers "no holds").
C9_EffectiveHoldMode ==
    LET e == _effective_hold_profile(holds)
        n == Cardinality({i \in DOMAIN holds : holds[i].profile = POWER_SAVER})
    IN  /\ n >= 1 => e = POWER_SAVER
        /\ n = 0 => e = PERFORMANCE
        /\ e \in {POWER_SAVER, PERFORMANCE}

\* C9 witness: one power-saver hold among two performance holds.
C9_Witness ==
    /\ Cardinality({i \in DOMAIN holds : holds[i].profile = POWER_SAVER}) = 1
    /\ Cardinality({i \in DOMAIN holds : holds[i].profile = PERFORMANCE}) >= 2

\* C10: whenever the hold registry is empty, the backend's applied mode is
\* the base profile.
C10_BaseModeWithoutHolds ==
    holds = <<>> => Mode = base_profile

\* C11: the two translation tables are total on the three modes of their
\* side and are each other's inverse: from_backend(to_backend(m)) = m and
\* to_backend(from_backend(t)) = t; the mode the backend reports and every
\* switch request translate back and forth.
C11_TranslatorRoundTrips ==
    /\ \A m \in PPDProfile :
           PPD_TO_TUNED(m) \in TuneDProfile /\ TUNED_TO_PPD(PPD_TO_TUNED(m)) = m
    /\ \A t \in TuneDProfile :
           TUNED_TO_PPD(t) \in PPDProfile /\ PPD_TO_TUNED(TUNED_TO_PPD(t)) = t
    /\ \A m1, m2 \in PPDProfile :
           PPD_TO_TUNED(m1) = PPD_TO_TUNED(m2) => m1 = m2
    /\ PPD_TO_TUNED(Mode) = tuned_profile
    /\ backend_call # NoCall =>
           (backend_call \in TuneDProfile
            /\ PPD_TO_TUNED(TUNED_TO_PPD(backend_call)) = backend_call)

\* C11 witness: a request for performance went to the backend as
\* throughput-performance and is read back as performance.
C11_Witness ==
    /\ reply.op = "HoldProfile" /\ reply.profile = PERFORMANCE
    /\ backend_call = THROUGHPUT_PERFORMANCE
    /\ tuned_profile = THROUGHPUT_PERFORMANCE
    /\ Mode = PERFORMANCE

\* C12: after ReleaseProfile of an active cookie, the cookie is gone and
\* the backend mode is power-saver if a remaining hold asks for it, else
\* performance if holds remain, else the base profile.
C12_ReleaseRecomputes ==
    [][\A k \in CookieArgs :
          (ReleaseProfile(k, TRUE) /\ k \in HoldCookies(holds))
              => /\ reply'.status = "ok"
                 /\ HoldCookies(holds') = HoldCookies(holds) \ {k}
                 /\ active_profile(tuned_profile')
                        = Arbitrated(holds', base_profile)
                 /\ base_profile' = base_profile]_vars

\* C12 witness: a release left a power-saver and a performance hold, and
\* the mode is power-saver.
C12_Witness ==
    /\ reply.op = "ReleaseProfile" /\ reply.status = "ok"
    /\ HeldProfiles(holds) = {POWER_SAVER, PERFORMANCE}
    /\ Mode = POWER_SAVER

\* C13: after a successful HoldProfile(mode) the backend mode is the mode
\* of the hold just added, whatever holds were there before.
C13_NewHoldWins ==
    (reply.op = "HoldProfile" /\ reply.status = "ok")
        => /\ holds # <<>>
           /\ holds[Len(holds)].cookie = reply.cookie[1]
           /\ holds[Len(holds)].profile = reply.profile
           /\ Mode = reply.profile

\* C13 witness: a performance hold was added over a power-saver hold.
C13_Witness ==
    /\ reply.op = "HoldProfile" /\ reply.status = "ok"
    /\ reply.profile = PERFORMANCE
    /\ POWER_SAVER \in HeldProfiles(holds)
    /\ Mode = PERFORMANCE

\* A handler of the Controller ran (not the bus losing a client).
HandlerStep ==
    \/ \E p \in ProfileArgs, c \in Clients : HoldProfile(p, c, TRUE)
    \/ \E k \in CookieArgs : ReleaseProfile(k, TRUE)
    \/ \E p \in ProfileArgs : set_active_profile(p, TRUE)
    \/ \E w \in watches, n \in {"", "owner"} : _callback(w, n, TRUE)

\* C14: a handler that reaches switch_profile(mode) calls the backend if
\* and only if mode differs from the mode the backend reports; the backend
\* is never asked for the mode it reports, and without a call its mode
\* stays.
C14_TransitionSuppression ==
    [][/\ \A p \in {POWER_SAVER, PERFORMANCE}, c \in Clients :
             (reply'.op = "HoldProfile" /\ reply'.profile = p
              /\ HoldProfile(p, c, TRUE))
                 => (backend_call' # NoCall <=> Mode # p)
       /\ \A k \in HoldCookies(holds) :
             (reply'.op = "ReleaseProfile" /\ reply'.cookie = <<k>>
              /\ ReleaseProfile(k, TRUE))
                 => (backend_call' # NoCall
                         <=> Mode # Arbitrated(holds', base_profile))
       /\ \A w \in watches :
             (reply'.op = "callback" /\ reply'.cookie = <<w.cookie>>
              /\ _callback(w, "", TRUE))
                 => (backend_call' # NoCall
                         <=> Mode # Arbitrated(holds', base_profile))
       /\ \A p \in PPDProfile :
             (holds = <<>> /\ reply'.op = "set_active_profile"
              /\ reply'.profile = p /\ set_active_profile(p, TRUE))
                 => (backend_call' # NoCall <=> Mode # p)
       /\ \/ /\ backend_call' # NoCall
                    => (backend_call' # tuned_profile
                        /\ tuned_profile' = backend_call')
             /\ backend_call' = NoCall => tuned_profile' = tuned_profile
          \/ ~HandlerStep]_vars

\* C14 witness: a hold of the mode the backend already reports was added
\* without a backend call.
C14_Witness ==
    /\ reply.op = "HoldProfile" /\ reply.status = "ok"
    /\ backend_call = NoCall
    /\ Len(holds) >= 2

\* C15: when the backend fails the switch that HoldProfile asks for, the
\* call fails as backend-unavailable after that one request, and the new
\* hold stays registered under its cookie with its watch live; when it
\* fails the switch after ReleaseProfile, the hold stays removed (its
\* watch cancelled, its ProfileReleased sent).  The backend keeps its mode.
C15_NoRollbackOnSwitchFailure ==
    [][/\ \A p \in {POWER_SAVER, PERFORMANCE}, c \in Clients :
             (HoldProfile(p, c, FALSE) /\ Mode # p)
                 => /\ reply'.status = "backend-unavailable"
                    /\ backend_call' = PPD_TO_TUNED(p)
                    /\ tuned_profile' = tuned_profile
                    /\ holds' = Append(holds, [cookie |-> cookie_counter,
                                               profile |-> p, app |-> c])
                    /\ watches' = watches \cup
                                  {[cookie |-> cookie_counter, name |-> c]}
                    /\ cookie_counter' = cookie_counter + 1
                    /\ signals' = signals
       /\ \A k \in HoldCookies(holds) :
             (ReleaseProfile(k, FALSE) /\ backend_call' # NoCall)
                 => /\ reply'.status = "backend-unavailable"
                    /\ tuned_profile' = tuned_profile
                    /\ HoldCookies(holds') = HoldCookies(holds) \ {k}
                    /\ signals' = Append(signals, k)
                    /\ \A w \in watches' : w.cookie # k]_vars

\* C15 witness: HoldProfile failed at the backend and its hold is in the
\* registry, with a mode the backend is not in.
C15_Witness ==
    /\ reply.op = "HoldProfile" /\ reply.status = "backend-unavailable"
    /\ holds # <<>>
    /\ holds[Len(holds)].profile = reply.profile
    /\ holds[Len(holds)].cookie = cookie_counter - 1
    /\ Mode # reply.profile
    /\ \E w \in watches : w.cookie = holds[Len(holds)].cookie

\* C16: the live watches are exactly the cookies of the hold registry, one
\* watch per hold and on the name of the client that asked for it; no
\* watch is live for a cookie that left the registry.
C16_WatchesMatchHolds ==
    /\ {w.cookie : w \in watches} = HoldCookies(holds)
    /\ Cardinality(watches) = Len(holds)
    /\ \A i \in DOMAIN holds :
           [cookie |-> holds[i].cookie, name |-> holds[i].app] \in watches
    /\ \A c \in Range(issued) :
           c \notin HoldCookies(holds) => \A w \in watches : w.cookie # c

\* C16 witness: two holds have left the registry and one is active.
C16_Witness ==
    /\ Len(holds) >= 1
    /\ Len(signals) >= 2
    /\ watches # {}

\* C17 as stated: remove(cookie) of a cookie that is not in the registry
\* changes nothing: hold set, signals and watches stay, no backend switch
\* call is made and the backend mode stays.  Stated for the states in which
\* no hold has left the registry yet, where no base-mode change can have
\* been cut short.
C17_RemoveAbsentIsNoOp ==
    [][\A k \in CookieArgs :
          (RemoveAbsent(k, TRUE) /\ signals = <<>>)
              => /\ UNCHANGED <<holds, watches, signals, tuned_profile>>
                 /\ backend_call' = NoCall]_vars

\* C17 amended: remove(cookie) of a cookie that is not in the registry
\* leaves hold set, signals and watches alone, and recomputes the mode: it
\* calls the backend exactly when the backend's mode differs from the
\* arbitrated mode of the holds (else the base profile), and leaves the
\* backend in that mode.
C17_RemoveAbsentOnlyRecomputes ==
    [][\A k \in CookieArgs :
          RemoveAbsent(k, TRUE)
              => /\ UNCHANGED <<holds, watches, signals, base_profile,
                                cookie_counter>>
                 /\ backend_call' # NoCall
                        <=> Mode # Arbitrated(holds, base_profile)
                 /\ active_profile(tuned_profile')
                        = Arbitrated(holds, base_profile)]_vars

\* C17 witness: remove of an absent cookie made the backend switch.
C17_Witness ==
    /\ reply.op = "remove-absent"
    /\ backend_call # NoCall
    /\ reply.cookie[1] \notin HoldCookies(holds)

\* C18: once every client has disconnected (so no HoldProfile can arrive
\* any more), the hold registry becomes empty and the backend mode becomes
\* the base profile.
C18_HoldsRevokedOnDisconnect ==
    (owners = {}) ~> (holds = <<>> /\ Mode = base_profile)

\* C19: whenever a hold is active, the backend's applied mode is the mode
\* some active hold asks for.
C19_ModeIsHeldMode ==
    holds # <<>> => Mode \in HeldProfiles(holds)

\* C20: base_profile is balanced after construction; a step changes it
\* only if it is set ActiveProfile with a valid mode, which stores that
\* mode, and is no HoldProfile, ReleaseProfile, callback or disconnect
\* of a client; a set ActiveProfile rejected as
\* invalid-argument leaves base_profile, hold registry, watches, signals
\* and backend mode alone.
C20_BaseProfileFrame ==
    /\ base_profile = BALANCED
    /\ [][/\ base_profile' # base_profile
                => /\ \E p \in PPDProfile :
                          set_active_profile(p, TRUE) /\ base_profile' = p
                   /\ ~ \/ \E p \in ProfileArgs, c \in Clients :
                              HoldProfile(p, c, TRUE)
                        \/ \E k \in CookieArgs : ReleaseProfile(k, TRUE)
                        \/ \E w \in watches, n \in {"", "owner"} :
                              _callback(w, n, TRUE)
                        \/ \E c \in Clients : Disconnect(c)
          /\ \A p \in PPDProfile :
                (reply'.op = "set_active_profile" /\ reply'.profile = p
                 /\ set_active_profile(p, TRUE))
                    => base_profile' = p
          /\ \A p \in ProfileArgs \ PPDProfile :
                (reply'.op = "set_active_profile" /\ reply'.profile = p
                 /\ set_active_profile(p, TRUE))
                    => /\ reply'.status = "invalid-argument"
                       /\ backend_call' = NoCall
                       /\ UNCHANGED <<base_profile, holds, watches, signals,
                                      tuned_profile, cookie_counter>>]_vars

\* C20 witness: a set ActiveProfile was rejected while holds are active
\* and the base profile is one an earlier set ActiveProfile stored.
C20_Witness ==
    /\ reply.op = "set_active_profile" /\ reply.status = "invalid-argument"
    /\ holds # <<>>
    /\ base_profile # BALANCED

====
